---- MODULE Spec2Model ----
(***************************************************************************)
(* The WaterResourceManager contract                                       *)
(* (src/examples/WaterResourceManager/pages/index.tsx, lines 842-1175):    *)
(* region registry, allocation periods, water requests, the two-phase      *)
(* decrypt-then-distribute allocation and the emergency override.          *)
(* Every external call of the contract is one atomic action.  For each     *)
(* handler h, hErr(args) is the revert reason its modifiers and requires   *)
(* produce in the current state (OK when none fails), in the order the     *)
(* code evaluates them.  A call that reverts writes nothing: it is a       *)
(* stuttering step, so hErr(args) = OK is the guard of the action h(args). *)
(***************************************************************************)
EXTENDS Integers, Sequences, FiniteSets, TLC

(* ------------------------------ bounds -------------------------------- *)
MaxRegions == 3
MaxPeriods == 2
MaxRequests == 2
MaxCalls == 6
MaxShareRegions == 20

(* ------------------------- program constants -------------------------- *)
MaxPriority == 10
MaxDurationHours == 168
MaxJustification == 100
SecondsPerHour == 3600
ShareDivisor == 10

(* ------------------------- principals, inputs -------------------------- *)
Authority == "auth"
NullAddress == "0x0"
This == "this"
Accounts == {Authority, "m1", "m2", "m3", "m4"}
Managers == {NullAddress, "m1", "m2"}
Names == {"", "North"}
Priorities == {0, 1, MaxPriority + 1}
PeriodTotals == {0, 25}
CallbackTotals == {0, 1, 25}
Durations == {0, 1, MaxDurationHours + 1}
Amounts == {0, 5}
Scores == {0, 1, MaxJustification + 1}
EmergencyAmounts == {0, 7}
RequestIds == 1..MaxRequests

RegionIds == 0..MaxRegions
PeriodIds == 0..MaxPeriods

(* revert reasons of the source *)
OK == "ok"
ErrNotAuthorized == "Not authorized"
ErrInvalidRegionId == "Invalid region ID"
ErrRegionNotActive == "Region not active"
ErrNotDuringPeriod == "Not during allocation period"
ErrInvalidName == "Invalid region name"
ErrInvalidManager == "Invalid manager address"
ErrPriority == "Priority must be 1-10"
ErrPeriodActive == "Allocation period already active"
ErrInvalidWater == "Invalid water amount"
ErrDuration == "Duration must be 1-168 hours"
ErrNotManager == "Not a registered region manager"
ErrInvalidRequested == "Invalid requested amount"
ErrJustification == "Justification score must be 1-100"
ErrDuplicate == "Region already submitted request"
ErrNoParticipants == "No participating regions"
ErrCompleted == "Distribution already completed"
ErrInvalidEmergency == "Invalid emergency amount"
ErrSignatures == "Invalid signatures"
ErrPanic == "Panic: arithmetic overflow"

VARIABLES
    now,                      \* block.timestamp
    authority,
    currentAllocationPeriod,
    lastAllocationTime,
    regions,
    allocationPeriods,
    waterRequests,
    regionManagers,
    regionsByPeriod,
    totalRegions,
    nextRegionId,
    ciphertexts,              \* FHE runtime: set of <<handle, plaintext>>
    acl,                      \* FHE runtime: set of <<handle, principal>> grants
    decryptionRequests,       \* FHE runtime: issued requests, id = index
    events,                   \* the event log
    calls                     \* number of steps taken so far (bounds the exploration)

contractVars == <<authority, currentAllocationPeriod, lastAllocationTime, regions,
                  allocationPeriods, waterRequests, regionManagers, regionsByPeriod,
                  totalRegions, nextRegionId>>
fheVars == <<ciphertexts, acl, decryptionRequests>>
stateVars == <<contractVars, fheVars, events>>
vars == <<now, stateVars, calls>>

(* ---------------------------- data model ------------------------------ *)
\* An euint32 is a handle.  The runtime issues a new handle for every value it
\* encrypts; a handle is named here by the statement that created it and the
\* record it was created for.  NoHandle is the uninitialised euint32.
NoHandle == <<"none", 0, 0>>

\* The event log, kept as one stream per event type.
EventTypes == {"RegionRegistered", "AllocationPeriodStarted", "WaterRequested",
               "WaterAllocated", "AllocationCompleted", "EmergencyAllocation"}

EmptyRegion ==
    [name |-> "", waterDemand |-> NoHandle, allocatedAmount |-> NoHandle,
     priorityLevel |-> NoHandle,
     isActive |-> FALSE, lastUpdateTime |-> 0, manager |-> NullAddress]

EmptyPeriod ==
    [startTime |-> 0, endTime |-> 0, totalAvailableWater |-> NoHandle,
     distributionCompleted |-> FALSE, participatingRegions |-> 0,
     regionParticipated |-> {}]

EmptyRequest ==
    [requestedAmount |-> NoHandle, justificationScore |-> NoHandle,
     isProcessed |-> FALSE,
     timestamp |-> 0, requester |-> NullAddress]

Init ==
    /\ now = SecondsPerHour
    /\ authority = Authority
    /\ currentAllocationPeriod = 0
    /\ lastAllocationTime = SecondsPerHour
    /\ regions = [r \in RegionIds |-> EmptyRegion]
    /\ allocationPeriods = [p \in PeriodIds |-> EmptyPeriod]
    /\ waterRequests = [p \in PeriodIds |-> [r \in RegionIds |-> EmptyRequest]]
    /\ regionManagers = [a \in Accounts \cup {NullAddress} |-> 0]
    /\ regionsByPeriod = [p \in PeriodIds |-> <<>>]
    /\ totalRegions = 0
    /\ nextRegionId = 1
    /\ ciphertexts = {}
    /\ acl = {}
    /\ decryptionRequests = <<>>
    /\ events = [t \in EventTypes |-> <<>>]
    /\ calls = 0

(* ------------------------- the FHE runtime ---------------------------- *)
\* FHE.asEuint32(v): the new handle, and the runtime after storing v under it
asEuint32(kind, a, b) == <<kind, a, b>>
store(cts, h, v) == cts \cup {<<h, v>>}

\* emit: append to the stream of the event's type
emit(log, ev) == [log EXCEPT ![ev[1]] = Append(@, ev)]

\* FHE.allowThis(h) / FHE.allow(h, who): grants are only ever added
allowThis(grants, h) == grants \cup {<<h, This>>}
allow(grants, h, who) == grants \cup {<<h, who>>}

\* FHE.requestDecryption(cts, selector): the runtime records the request; its id
\* is its index
requestDecryption(reqs, cts) == Append(reqs, cts)

\* the plaintext the runtime holds under an issued handle
plaintext(cts, h) == CHOOSE v \in {x[2] : x \in {y \in cts : y[1] = h}} : TRUE

\* FHE.checkSignatures(requestId, ...): passes for an issued request with
\* signatures that verify
checkSignatures(requestId, sigsValid) ==
    requestId \in 1..Len(decryptionRequests) /\ sigsValid

(* ---------------------------- modifiers ------------------------------- *)
\* variant: a region manager passes the authority check too
onlyAuthority_orManager(sender) == sender = authority \/ regionManagers[sender] > 0

onlyAuthority(sender) == sender = authority

\* variant: the isActive require is missing
validRegionErr_noActiveCheck(regionId) ==
    IF ~(regionId > 0 /\ regionId < nextRegionId) THEN ErrInvalidRegionId
    ELSE OK

validRegionErr(regionId) ==
    IF ~(regionId > 0 /\ regionId < nextRegionId) THEN ErrInvalidRegionId
    ELSE IF ~regions[regionId].isActive THEN ErrRegionNotActive
    ELSE OK

\* variant: the window's end is taken as exclusive
isAllocationPeriodActive_endExclusive ==
    IF currentAllocationPeriod = 0 THEN FALSE
    ELSE LET period == allocationPeriods[currentAllocationPeriod] IN
         /\ now >= period.startTime
         /\ now < period.endTime
         /\ ~period.distributionCompleted

\* variant: the end of the window is not looked at
isAllocationPeriodActive_ignoresEnd ==
    IF currentAllocationPeriod = 0 THEN FALSE
    ELSE LET period == allocationPeriods[currentAllocationPeriod] IN
         /\ now >= period.startTime
         /\ ~period.distributionCompleted

\* variant: a completed distribution does not end the period
isAllocationPeriodActive_ignoresCompleted ==
    IF currentAllocationPeriod = 0 THEN FALSE
    ELSE LET period == allocationPeriods[currentAllocationPeriod] IN
         /\ now >= period.startTime
         /\ now <= period.endTime

\* variant: the start of the window is taken as exclusive
isAllocationPeriodActive_startExclusive ==
    IF currentAllocationPeriod = 0 THEN FALSE
    ELSE LET period == allocationPeriods[currentAllocationPeriod] IN
         /\ now > period.startTime
         /\ now <= period.endTime
         /\ ~period.distributionCompleted

isAllocationPeriodActive ==
    IF currentAllocationPeriod = 0 THEN FALSE
    ELSE LET period == allocationPeriods[currentAllocationPeriod] IN
         /\ now >= period.startTime
         /\ now <= period.endTime
         /\ ~period.distributionCompleted

(* ------------------------- Participant registry ----------------------- *)
\* variant: the priority has no upper limit
registerRegionErr_noUpperLimit(sender, name, priorityLevel, manager) ==
    IF ~onlyAuthority(sender) THEN ErrNotAuthorized
    ELSE IF ~(name # "") THEN ErrInvalidName
    ELSE IF ~(manager # NullAddress) THEN ErrInvalidManager
    ELSE IF ~(priorityLevel > 0) THEN ErrPriority
    ELSE OK

\* registerRegion, lines 933-966: the onlyAuthority modifier and the requires
registerRegionErr(sender, name, priorityLevel, manager) ==
    IF ~onlyAuthority(sender) THEN ErrNotAuthorized
    ELSE IF ~(name # "") THEN ErrInvalidName
    ELSE IF ~(manager # NullAddress) THEN ErrInvalidManager
    ELSE IF ~(priorityLevel > 0 /\ priorityLevel <= MaxPriority) THEN ErrPriority
    ELSE OK

\* variant: the counter is not advanced
idAfter_same(regionId) == regionId

\* regionId = nextRegionId++ : the value nextRegionId has after the call
idAfter(regionId) == regionId + 1

\* regionManagers[_manager] = regionId
setRegionManager(index, manager, regionId) == [index EXCEPT ![manager] = regionId]

registerRegion(sender, name, priorityLevel, manager) ==
    /\ registerRegionErr(sender, name, priorityLevel, manager) = OK
    /\
        LET regionId == nextRegionId
            encryptedPriority == asEuint32("priority", regionId, 0)
            initialDemand == asEuint32("initialDemand", regionId, 0)
            initialAllocation == asEuint32("initialAllocation", regionId, 0)
        IN
        /\ nextRegionId' = idAfter(regionId)
        /\ ciphertexts' = store(store(store(ciphertexts, encryptedPriority, priorityLevel),
                                       initialDemand, 0), initialAllocation, 0)
        /\ regions' = [regions EXCEPT ![regionId] =
               [name |-> name, waterDemand |-> initialDemand,
                allocatedAmount |-> initialAllocation,
                priorityLevel |-> encryptedPriority, isActive |-> TRUE,
                lastUpdateTime |-> now, manager |-> manager]]
        /\ regionManagers' = setRegionManager(regionManagers, manager, regionId)
        /\ totalRegions' = totalRegions + 1
        /\ acl' = allowThis(allowThis(allowThis(acl, encryptedPriority),
                                      initialDemand), initialAllocation)
        /\ events' = emit(events, <<"RegionRegistered", regionId, name, manager>>)
        /\ UNCHANGED <<now, authority, currentAllocationPeriod, lastAllocationTime,
                       allocationPeriods, waterRequests, regionsByPeriod,
                       decryptionRequests>>

\* deactivateRegion, lines 1161-1164
deactivateRegionErr(sender, regionId) ==
    IF ~onlyAuthority(sender) THEN ErrNotAuthorized
    ELSE IF validRegionErr(regionId) # OK THEN validRegionErr(regionId)
    ELSE IF totalRegions = 0 THEN ErrPanic
    ELSE OK

\* variant: the counter of active regions is not decremented
deactivateRegion_keepsCount(sender, regionId) ==
    /\ deactivateRegionErr(sender, regionId) = OK
    /\
        /\ regions' = [regions EXCEPT ![regionId].isActive = FALSE]
        /\ UNCHANGED <<now, authority, currentAllocationPeriod, lastAllocationTime,
                       allocationPeriods, waterRequests, regionManagers,
                       regionsByPeriod, totalRegions, nextRegionId, fheVars, events>>

deactivateRegion(sender, regionId) ==
    /\ deactivateRegionErr(sender, regionId) = OK
    /\
        /\ regions' = [regions EXCEPT ![regionId].isActive = FALSE]
        /\ totalRegions' = totalRegions - 1
        /\ UNCHANGED <<now, authority, currentAllocationPeriod, lastAllocationTime,
                       allocationPeriods, waterRequests, regionManagers,
                       regionsByPeriod, nextRegionId, fheVars, events>>

\* updateRegionManager, lines 1166-1174
updateRegionManagerErr(sender, regionId, newManager) ==
    IF ~onlyAuthority(sender) THEN ErrNotAuthorized
    ELSE IF validRegionErr(regionId) # OK THEN validRegionErr(regionId)
    ELSE IF ~(newManager # NullAddress) THEN ErrInvalidManager
    ELSE OK

\* variant: the entry of the old manager is not deleted
updateRegionManager_keepsOld(sender, regionId, newManager) ==
    /\ updateRegionManagerErr(sender, regionId, newManager) = OK
    /\
        /\ regions' = [regions EXCEPT ![regionId].manager = newManager]
        /\ regionManagers' = setRegionManager(regionManagers, newManager, regionId)
        /\ UNCHANGED <<now, authority, currentAllocationPeriod, lastAllocationTime,
                       allocationPeriods, waterRequests, regionsByPeriod,
                       totalRegions, nextRegionId, fheVars, events>>

updateRegionManager(sender, regionId, newManager) ==
    /\ updateRegionManagerErr(sender, regionId, newManager) = OK
    /\
        LET oldManager == regions[regionId].manager IN
        /\ regions' = [regions EXCEPT ![regionId].manager = newManager]
        /\ regionManagers' =
               setRegionManager([regionManagers EXCEPT ![oldManager] = 0],
                                newManager, regionId)
        /\ UNCHANGED <<now, authority, currentAllocationPeriod, lastAllocationTime,
                       allocationPeriods, waterRequests, regionsByPeriod,
                       totalRegions, nextRegionId, fheVars, events>>

(* ------------------------------- views -------------------------------- *)
\* getCurrentPeriodInfo, lines 1119-1140: (periodId, startTime, endTime,
\* distributionCompleted, participatingRegions, isActive)
getCurrentPeriodInfo ==
    IF currentAllocationPeriod = 0 THEN <<0, 0, 0, FALSE, 0, FALSE>>
    ELSE LET period == allocationPeriods[currentAllocationPeriod] IN
         <<currentAllocationPeriod, period.startTime, period.endTime,
           period.distributionCompleted, period.participatingRegions,
           isAllocationPeriodActive>>

\* variant: the view carries no validRegion modifier
getRegionInfoErr_noModifier(regionId) == OK

\* getRegionInfo, lines 1104-1117: (name, isActive, lastUpdateTime, manager)
getRegionInfoErr(regionId) == validRegionErr(regionId)

getRegionInfo(regionId) ==
    LET region == regions[regionId] IN
    <<region.name, region.isActive, region.lastUpdateTime, region.manager>>

(* ------------------------- Allocation periods ------------------------- *)
\* startAllocationPeriod, lines 968-987
startAllocationPeriodErr(sender, totalAvailableWater, durationHours) ==
    IF ~onlyAuthority(sender) THEN ErrNotAuthorized
    ELSE IF ~(~isAllocationPeriodActive) THEN ErrPeriodActive
    ELSE IF ~(totalAvailableWater > 0) THEN ErrInvalidWater
    ELSE IF ~(durationHours > 0 /\ durationHours <= MaxDurationHours) THEN ErrDuration
    ELSE OK

\* variant: the duration is added as seconds
periodEnd_noHours(start, durationHours) == start + durationHours

\* newPeriod.endTime = block.timestamp + (_durationHours * 3600)
periodEnd(start, durationHours) == start + (durationHours * SecondsPerHour)

\* variant: currentAllocationPeriod++ survives a failed validation
startAllocationPeriod_countsFirst(sender, totalAvailableWater, durationHours) ==
    \/ /\ startAllocationPeriodErr(sender, totalAvailableWater, durationHours)
             \in {ErrInvalidWater, ErrDuration}
       /\ currentAllocationPeriod' = currentAllocationPeriod + 1
       /\ UNCHANGED <<now, authority, lastAllocationTime, regions, allocationPeriods,
                      waterRequests, regionManagers, regionsByPeriod, totalRegions,
                      nextRegionId, fheVars, events>>
    \/ /\ startAllocationPeriodErr(sender, totalAvailableWater, durationHours) = OK
       /\
        LET newId == currentAllocationPeriod + 1
            encryptedTotalWater == asEuint32("totalAvailableWater", newId, 0)
        IN
        /\ currentAllocationPeriod' = newId
        /\ ciphertexts' = store(ciphertexts, encryptedTotalWater, totalAvailableWater)
        /\ allocationPeriods' = [allocationPeriods EXCEPT
               ![newId].startTime = now,
               ![newId].endTime = periodEnd(now, durationHours),
               ![newId].totalAvailableWater = encryptedTotalWater,
               ![newId].distributionCompleted = FALSE,
               ![newId].participatingRegions = 0]
        /\ acl' = allowThis(acl, encryptedTotalWater)
        /\ events' = emit(events, <<"AllocationPeriodStarted", newId, now>>)
        /\ UNCHANGED <<now, authority, lastAllocationTime, regions, waterRequests,
                       regionManagers, regionsByPeriod, totalRegions, nextRegionId,
                       decryptionRequests>>

startAllocationPeriod(sender, totalAvailableWater, durationHours) ==
    /\ startAllocationPeriodErr(sender, totalAvailableWater, durationHours) = OK
    /\
        LET newId == currentAllocationPeriod + 1
            encryptedTotalWater == asEuint32("totalAvailableWater", newId, 0)
        IN
        /\ currentAllocationPeriod' = newId
        /\ ciphertexts' = store(ciphertexts, encryptedTotalWater, totalAvailableWater)
        /\ allocationPeriods' = [allocationPeriods EXCEPT
               ![newId].startTime = now,
               ![newId].endTime = periodEnd(now, durationHours),
               ![newId].totalAvailableWater = encryptedTotalWater,
               ![newId].distributionCompleted = FALSE,
               ![newId].participatingRegions = 0]
        /\ acl' = allowThis(acl, encryptedTotalWater)
        /\ events' = emit(events, <<"AllocationPeriodStarted", newId, now>>)
        /\ UNCHANGED <<now, authority, lastAllocationTime, regions, waterRequests,
                       regionManagers, regionsByPeriod, totalRegions, nextRegionId,
                       decryptionRequests>>

(* --------------------------- Request ledger --------------------------- *)
\* variant: the regionParticipated check is missing
submitWaterRequestErr_noDuplicateCheck(sender, requestedAmount, justificationScore) ==
    LET regionId == regionManagers[sender] IN
    IF ~isAllocationPeriodActive THEN ErrNotDuringPeriod
    ELSE IF ~(regionId > 0) THEN ErrNotManager
    ELSE IF ~(requestedAmount > 0) THEN ErrInvalidRequested
    ELSE IF ~(justificationScore >= 1 /\ justificationScore <= MaxJustification)
         THEN ErrJustification
    ELSE OK

\* variant: the manager lookup is checked before the period
submitWaterRequestErr_managerFirst(sender, requestedAmount, justificationScore) ==
    LET regionId == regionManagers[sender] IN
    IF ~(regionId > 0) THEN ErrNotManager
    ELSE IF ~isAllocationPeriodActive THEN ErrNotDuringPeriod
    ELSE IF ~(requestedAmount > 0) THEN ErrInvalidRequested
    ELSE IF ~(justificationScore >= 1 /\ justificationScore <= MaxJustification)
         THEN ErrJustification
    ELSE IF ~(regionId \notin
                allocationPeriods[currentAllocationPeriod].regionParticipated)
         THEN ErrDuplicate
    ELSE OK

\* submitWaterRequest, lines 989-1025
submitWaterRequestErr(sender, requestedAmount, justificationScore) ==
    LET regionId == regionManagers[sender] IN
    IF ~isAllocationPeriodActive THEN ErrNotDuringPeriod
    ELSE IF ~(regionId > 0) THEN ErrNotManager
    ELSE IF ~(requestedAmount > 0) THEN ErrInvalidRequested
    ELSE IF ~(justificationScore >= 1 /\ justificationScore <= MaxJustification)
         THEN ErrJustification
    ELSE IF ~(regionId \notin
                allocationPeriods[currentAllocationPeriod].regionParticipated)
         THEN ErrDuplicate
    ELSE OK

\* variant: the request is stored as already processed
newRequest_processed(encryptedRequest, encryptedJustification, sender) ==
    [requestedAmount |-> encryptedRequest,
     justificationScore |-> encryptedJustification,
     isProcessed |-> TRUE, timestamp |-> now, requester |-> sender]

\* variant: the request carries no time stamp
newRequest_noTimestamp(encryptedRequest, encryptedJustification, sender) ==
    [requestedAmount |-> encryptedRequest,
     justificationScore |-> encryptedJustification,
     isProcessed |-> FALSE, timestamp |-> 0, requester |-> sender]

\* the WaterRequest struct literal, lines 1004-1010
newRequest(encryptedRequest, encryptedJustification, sender) ==
    [requestedAmount |-> encryptedRequest,
     justificationScore |-> encryptedJustification,
     isProcessed |-> FALSE, timestamp |-> now, requester |-> sender]

\* variant: the call stamps lastUpdateTime of every region
submitWaterRequest_refreshesAll(sender, requestedAmount, justificationScore) ==
    /\ submitWaterRequestErr(sender, requestedAmount, justificationScore) = OK
    /\
        LET regionId == regionManagers[sender]
            cur == currentAllocationPeriod
            encryptedRequest == asEuint32("requestedAmount", cur, regionId)
            encryptedJustification == asEuint32("justificationScore", cur, regionId)
        IN
        /\ ciphertexts' = store(store(ciphertexts, encryptedRequest, requestedAmount),
                                 encryptedJustification, justificationScore)
        /\ waterRequests' = [waterRequests EXCEPT ![cur][regionId] =
               newRequest(encryptedRequest, encryptedJustification, sender)]
        /\ regions' = [r \in DOMAIN regions |->
               IF r = regionId
               THEN [regions[r] EXCEPT !.waterDemand = encryptedRequest,
                                       !.lastUpdateTime = now]
               ELSE [regions[r] EXCEPT !.lastUpdateTime = now]]
        /\ allocationPeriods' = [allocationPeriods EXCEPT
               ![cur].regionParticipated = @ \cup {regionId},
               ![cur].participatingRegions = @ + 1]
        /\ regionsByPeriod' = [regionsByPeriod EXCEPT ![cur] = Append(@, regionId)]
        /\ acl' = allow(allow(allowThis(allowThis(acl, encryptedRequest),
                                        encryptedJustification),
                              encryptedRequest, sender),
                        encryptedJustification, sender)
        /\ events' = emit(events, <<"WaterRequested", regionId, cur, sender>>)
        /\ UNCHANGED <<now, authority, currentAllocationPeriod, lastAllocationTime,
                       regionManagers, totalRegions, nextRegionId, decryptionRequests>>

submitWaterRequest(sender, requestedAmount, justificationScore) ==
    /\ submitWaterRequestErr(sender, requestedAmount, justificationScore) = OK
    /\
        LET regionId == regionManagers[sender]
            cur == currentAllocationPeriod
            encryptedRequest == asEuint32("requestedAmount", cur, regionId)
            encryptedJustification == asEuint32("justificationScore", cur, regionId)
        IN
        /\ ciphertexts' = store(store(ciphertexts, encryptedRequest, requestedAmount),
                                 encryptedJustification, justificationScore)
        /\ waterRequests' = [waterRequests EXCEPT ![cur][regionId] =
               newRequest(encryptedRequest, encryptedJustification, sender)]
        /\ regions' = [regions EXCEPT ![regionId].waterDemand = encryptedRequest,
                                      ![regionId].lastUpdateTime = now]
        /\ allocationPeriods' = [allocationPeriods EXCEPT
               ![cur].regionParticipated = @ \cup {regionId},
               ![cur].participatingRegions = @ + 1]
        /\ regionsByPeriod' = [regionsByPeriod EXCEPT ![cur] = Append(@, regionId)]
        /\ acl' = allow(allow(allowThis(allowThis(acl, encryptedRequest),
                                        encryptedJustification),
                              encryptedRequest, sender),
                        encryptedJustification, sender)
        /\ events' = emit(events, <<"WaterRequested", regionId, cur, sender>>)
        /\ UNCHANGED <<now, authority, currentAllocationPeriod, lastAllocationTime,
                       regionManagers, totalRegions, nextRegionId, decryptionRequests>>

(* -------------------------- Allocation engine ------------------------- *)
\* variant: the participatingRegions require is missing
processAllocationErr_noParticipantsCheck(sender) ==
    LET period == allocationPeriods[currentAllocationPeriod] IN
    IF ~onlyAuthority(sender) THEN ErrNotAuthorized
    ELSE IF ~isAllocationPeriodActive THEN ErrNotDuringPeriod
    ELSE IF ~(~period.distributionCompleted) THEN ErrCompleted
    ELSE OK

\* processAllocation, lines 1027-1035
processAllocationErr(sender) ==
    LET period == allocationPeriods[currentAllocationPeriod] IN
    IF ~onlyAuthority(sender) THEN ErrNotAuthorized
    ELSE IF ~isAllocationPeriodActive THEN ErrNotDuringPeriod
    ELSE IF ~(period.participatingRegions > 0) THEN ErrNoParticipants
    ELSE IF ~(~period.distributionCompleted) THEN ErrCompleted
    ELSE OK

processAllocation(sender) ==
    /\ processAllocationErr(sender) = OK
    /\
        LET cts == <<allocationPeriods[currentAllocationPeriod].totalAvailableWater>> IN
        /\ decryptionRequests' = requestDecryption(decryptionRequests, cts)
        /\ UNCHANGED <<now, contractVars, ciphertexts, acl, events>>

\* variant: the floor is the divisor instead of 1
calculateAllocation_floorTen(regionId, availableWater) ==
    IF availableWater = 0 THEN 0
    ELSE LET baseAllocation == availableWater \div ShareDivisor IN
         IF baseAllocation > 0 THEN baseAllocation ELSE ShareDivisor

\* variant: no floor, a share that truncates to 0 stays 0
calculateAllocation_noFloor(regionId, availableWater) ==
    IF availableWater = 0 THEN 0
    ELSE availableWater \div ShareDivisor

\* variant: the whole pool goes to the region that asks first
calculateAllocation_wholePool(regionId, availableWater) == availableWater

\* _calculateAllocation, lines 1081-1086 (uint32 division truncates)
calculateAllocation(regionId, availableWater) ==
    IF availableWater = 0 THEN 0
    ELSE LET baseAllocation == availableWater \div ShareDivisor IN
         IF baseAllocation > 0 THEN baseAllocation ELSE 1

\* variant: the loop body emits no WaterAllocated event
distributeStep_silent(st, regionId) ==
    LET cur == currentAllocationPeriod
        request == st.waterRequests[cur][regionId]
        allocatedAmount == calculateAllocation(regionId, st.remainingWater)
        encryptedAllocation == asEuint32("allocatedAmount", cur, regionId)
    IN
    IF request.isProcessed \/ ~(allocatedAmount > 0) THEN st
    ELSE IF allocatedAmount > st.remainingWater THEN [st EXCEPT !.panic = TRUE]
    ELSE [st EXCEPT
            !.ciphertexts = store(@, encryptedAllocation, allocatedAmount),
            !.regions[regionId].allocatedAmount = encryptedAllocation,
            !.acl = allow(allowThis(@, encryptedAllocation), encryptedAllocation,
                          st.regions[regionId].manager),
            !.remainingWater = @ - allocatedAmount,
            !.waterRequests[cur][regionId].isProcessed = TRUE]

\* one pass of the loop body of _distributeWaterBasedOnPriority, lines 1059-1077,
\* on the working copy st of the state the loop writes
distributeStep(st, regionId) ==
    LET cur == currentAllocationPeriod
        request == st.waterRequests[cur][regionId]
        allocatedAmount == calculateAllocation(regionId, st.remainingWater)
        encryptedAllocation == asEuint32("allocatedAmount", cur, regionId)
    IN
    IF request.isProcessed \/ ~(allocatedAmount > 0) THEN st
    ELSE IF allocatedAmount > st.remainingWater THEN [st EXCEPT !.panic = TRUE]
    ELSE [st EXCEPT
            !.ciphertexts = store(@, encryptedAllocation, allocatedAmount),
            !.regions[regionId].allocatedAmount = encryptedAllocation,
            !.acl = allow(allowThis(@, encryptedAllocation), encryptedAllocation,
                          st.regions[regionId].manager),
            !.remainingWater = @ - allocatedAmount,
            !.waterRequests[cur][regionId].isProcessed = TRUE,
            !.events = emit(@, <<"WaterAllocated", regionId, cur, allocatedAmount>>)]

\* the loop condition, line 1058
loopContinues(i, regionIds, remainingWater) ==
    i <= Len(regionIds) /\ remainingWater > 0

RECURSIVE distributeLoop(_, _)
distributeLoop(i, st) ==
    LET regionIds == regionsByPeriod[currentAllocationPeriod] IN
    IF st.panic \/ ~loopContinues(i, regionIds, st.remainingWater) THEN st
    ELSE distributeLoop(i + 1, distributeStep(st, regionIds[i]))

\* variant: the loop starts at the second participant
distributeWaterBasedOnPriority_skipFirst(totalWater) ==
    distributeLoop(2, [regions |-> regions, waterRequests |-> waterRequests,
                       ciphertexts |-> ciphertexts, acl |-> acl, events |-> events,
                       remainingWater |-> totalWater, panic |-> FALSE])

\* _distributeWaterBasedOnPriority, lines 1054-1079
distributeWaterBasedOnPriority(totalWater) ==
    distributeLoop(1, [regions |-> regions, waterRequests |-> waterRequests,
                       ciphertexts |-> ciphertexts, acl |-> acl, events |-> events,
                       remainingWater |-> totalWater, panic |-> FALSE])

\* variant: the distributionCompleted require is missing
processAllocationCallbackErr_noCompletedCheck(sender, requestId, totalWater, sigsValid) ==
    IF ~checkSignatures(requestId, sigsValid) THEN ErrSignatures
    ELSE IF distributeWaterBasedOnPriority(totalWater).panic THEN ErrPanic
    ELSE OK

\* variant: the signatures are checked after the distributionCompleted require
processAllocationCallbackErr_sigsLate(sender, requestId, totalWater, sigsValid) ==
    IF ~(~allocationPeriods[currentAllocationPeriod].distributionCompleted)
         THEN ErrCompleted
    ELSE IF ~checkSignatures(requestId, sigsValid) THEN ErrSignatures
    ELSE IF distributeWaterBasedOnPriority(totalWater).panic THEN ErrPanic
    ELSE OK

\* processAllocationCallback, lines 1037-1052
processAllocationCallbackErr(sender, requestId, totalWater, sigsValid) ==
    IF ~checkSignatures(requestId, sigsValid) THEN ErrSignatures
    ELSE IF ~(~allocationPeriods[currentAllocationPeriod].distributionCompleted)
         THEN ErrCompleted
    ELSE IF distributeWaterBasedOnPriority(totalWater).panic THEN ErrPanic
    ELSE OK

processAllocationCallback(sender, requestId, totalWater, sigsValid) ==
    /\ processAllocationCallbackErr(sender, requestId, totalWater, sigsValid) = OK
    /\
        LET st == distributeWaterBasedOnPriority(totalWater)
            cur == currentAllocationPeriod
        IN
        /\ regions' = st.regions
        /\ waterRequests' = st.waterRequests
        /\ ciphertexts' = st.ciphertexts
        /\ acl' = st.acl
        /\ allocationPeriods' =
               [allocationPeriods EXCEPT ![cur].distributionCompleted = TRUE]
        /\ events' = emit(st.events,
               <<"AllocationCompleted", cur, allocationPeriods[cur].participatingRegions>>)
        /\ UNCHANGED <<now, authority, currentAllocationPeriod, lastAllocationTime,
                       regionManagers, regionsByPeriod, totalRegions, nextRegionId,
                       decryptionRequests>>

(* -------------------------- Emergency override ------------------------ *)
\* variant: the emergencyAmount require is missing
emergencyWaterAllocationErr_noAmountCheck(sender, regionId, emergencyAmount) ==
    IF ~onlyAuthority(sender) THEN ErrNotAuthorized
    ELSE IF validRegionErr(regionId) # OK THEN validRegionErr(regionId)
    ELSE OK

\* variant: the call carries the duringAllocationPeriod modifier
emergencyWaterAllocationErr_duringPeriod(sender, regionId, emergencyAmount) ==
    IF ~onlyAuthority(sender) THEN ErrNotAuthorized
    ELSE IF validRegionErr(regionId) # OK THEN validRegionErr(regionId)
    ELSE IF ~isAllocationPeriodActive THEN ErrNotDuringPeriod
    ELSE IF ~(emergencyAmount > 0) THEN ErrInvalidEmergency
    ELSE OK

\* emergencyWaterAllocation, lines 1088-1102
emergencyWaterAllocationErr(sender, regionId, emergencyAmount) ==
    IF ~onlyAuthority(sender) THEN ErrNotAuthorized
    ELSE IF validRegionErr(regionId) # OK THEN validRegionErr(regionId)
    ELSE IF ~(emergencyAmount > 0) THEN ErrInvalidEmergency
    ELSE OK

\* variant: the FHE.allow to the region's manager is missing
emergencyWaterAllocation_noManagerGrant(sender, regionId, emergencyAmount) ==
    /\ emergencyWaterAllocationErr(sender, regionId, emergencyAmount) = OK
    /\
        LET encryptedEmergencyAmount ==
                asEuint32("emergencyAmount", Len(events["EmergencyAllocation"]) + 1, 0)
        IN
        /\ ciphertexts' = store(ciphertexts, encryptedEmergencyAmount, emergencyAmount)
        /\ regions' = [regions EXCEPT
               ![regionId].allocatedAmount = encryptedEmergencyAmount,
               ![regionId].lastUpdateTime = now]
        /\ acl' = allowThis(acl, encryptedEmergencyAmount)
        /\ events' = emit(events, <<"EmergencyAllocation", regionId, emergencyAmount>>)
        /\ UNCHANGED <<now, authority, currentAllocationPeriod, lastAllocationTime,
                       allocationPeriods, waterRequests, regionManagers,
                       regionsByPeriod, totalRegions, nextRegionId, decryptionRequests>>

emergencyWaterAllocation(sender, regionId, emergencyAmount) ==
    /\ emergencyWaterAllocationErr(sender, regionId, emergencyAmount) = OK
    /\
        LET encryptedEmergencyAmount ==
                asEuint32("emergencyAmount", Len(events["EmergencyAllocation"]) + 1, 0)
        IN
        /\ ciphertexts' = store(ciphertexts, encryptedEmergencyAmount, emergencyAmount)
        /\ regions' = [regions EXCEPT
               ![regionId].allocatedAmount = encryptedEmergencyAmount,
               ![regionId].lastUpdateTime = now]
        /\ acl' = allow(allowThis(acl, encryptedEmergencyAmount),
                        encryptedEmergencyAmount, regions[regionId].manager)
        /\ events' = emit(events, <<"EmergencyAllocation", regionId, emergencyAmount>>)
        /\ UNCHANGED <<now, authority, currentAllocationPeriod, lastAllocationTime,
                       allocationPeriods, waterRequests, regionManagers,
                       regionsByPeriod, totalRegions, nextRegionId, decryptionRequests>>

(* ------------------------------ the system ---------------------------- *)
\* block.timestamp only moves forward
TickHours == {1, 2}
Tick ==
    /\ \E h \in TickHours : now' = now + h * SecondsPerHour
    /\ UNCHANGED stateVars

CallRegisterRegion ==
    \E sender \in Accounts, name \in Names, p \in Priorities, m \in Managers :
        /\ nextRegionId <= MaxRegions
        /\ registerRegion(sender, name, p, m)

CallDeactivateRegion ==
    \E sender \in Accounts, regionId \in RegionIds :
        deactivateRegion(sender, regionId)

CallUpdateRegionManager ==
    \E sender \in Accounts, regionId \in RegionIds, m \in Managers :
        updateRegionManager(sender, regionId, m)

CallStartAllocationPeriod ==
    \E sender \in Accounts, total \in PeriodTotals, d \in Durations :
        /\ currentAllocationPeriod < MaxPeriods
        /\ startAllocationPeriod(sender, total, d)

CallSubmitWaterRequest ==
    \E sender \in Accounts, amount \in Amounts, score \in Scores :
        submitWaterRequest(sender, amount, score)

CallProcessAllocation ==
    \E sender \in Accounts :
        /\ Len(decryptionRequests) < MaxRequests
        /\ processAllocation(sender)

CallProcessAllocationCallback ==
    \E sender \in Accounts, requestId \in RequestIds, totalWater \in CallbackTotals,
       sigsValid \in BOOLEAN :
        processAllocationCallback(sender, requestId, totalWater, sigsValid)

CallEmergencyWaterAllocation ==
    \E sender \in Accounts, regionId \in RegionIds, a \in EmergencyAmounts :
        emergencyWaterAllocation(sender, regionId, a)

\* one step of the exploration, at most MaxCalls of them
Step(A) == calls < MaxCalls /\ calls' = calls + 1 /\ A

Next ==
    \/ Step(Tick)
    \/ Step(CallRegisterRegion)
    \/ Step(CallDeactivateRegion)
    \/ Step(CallUpdateRegionManager)
    \/ Step(CallStartAllocationPeriod)
    \/ Step(CallSubmitWaterRequest)
    \/ Step(CallProcessAllocation)
    \/ Step(CallProcessAllocationCallback)
    \/ Step(CallEmergencyWaterAllocation)

Spec == Init /\ [][Next]_vars

(* ---------------- the allocation cycle of the documentation ------------ *)
\* The workflow of the integration test "Should process complete allocation
\* cycle": the authority registers regions, starts a period of 10000 units for
\* 24 hours, the managers submit in any order, the authority processes and the
\* runtime calls back with any total.
CycleManagers == <<"m1", "m2", "m3", "m4">>
CyclePriorities == <<9, 7, 5, 3>>
CycleAmounts == <<5000, 4000, 3000, 2000>>
CycleScores == <<85, 70, 60, 50>>
CycleTotals == {0, 1, 2, 25, 10000}

CycleRegisterRegion ==
    /\ nextRegionId <= MaxRegions
    /\ nextRegionId <= Len(CycleManagers)
    /\ registerRegion(Authority, "North", CyclePriorities[nextRegionId],
                      CycleManagers[nextRegionId])

CycleStartAllocationPeriod ==
    /\ currentAllocationPeriod = 0
    /\ startAllocationPeriod(Authority, 10000, 24)

CycleSubmitWaterRequest ==
    \E r \in 1..Len(CycleManagers) :
        submitWaterRequest(CycleManagers[r], CycleAmounts[r], CycleScores[r])

CycleProcessAllocation ==
    /\ Len(decryptionRequests) < MaxRequests
    /\ processAllocation(Authority)

CycleProcessAllocationCallback ==
    \E sender \in Accounts, requestId \in RequestIds, totalWater \in CycleTotals :
        processAllocationCallback(sender, requestId, totalWater, TRUE)

NextCycle ==
    \/ CycleRegisterRegion /\ UNCHANGED calls
    \/ CycleStartAllocationPeriod /\ UNCHANGED calls
    \/ CycleSubmitWaterRequest /\ UNCHANGED calls
    \/ CycleProcessAllocation /\ UNCHANGED calls
    \/ CycleProcessAllocationCallback /\ UNCHANGED calls

SpecCycle == Init /\ [][NextCycle]_vars

(* ------------------- callbacks delivered by the runtime ---------------- *)
\* The FHE runtime answers a decryption request issued by processAllocation
\* (line 1034) by calling processAllocationCallback with the request's id, the
\* plaintext of the requested handle and signatures that verify, at a time of
\* its own choosing; the answer is a transaction of the runtime and not one of
\* the calls counted by Step.
Deliver(requestId) ==
    /\ requestId \in 1..Len(decryptionRequests)
    /\ \E sender \in Accounts \ {Authority} :
          processAllocationCallback(sender, requestId,
              plaintext(ciphertexts, decryptionRequests[requestId][1]), TRUE)
    /\ UNCHANGED calls

NextDelivery ==
    \/ Next
    \/ \E requestId \in RequestIds : Deliver(requestId)

\* every request that can be answered is eventually answered
SpecDelivery ==
    /\ Init
    /\ [][NextDelivery]_vars
    /\ \A requestId \in RequestIds : WF_vars(Deliver(requestId))

(* ------------------ a period with many participants ------------------ *)
\* The distribution on a long list of participants: the authority registers
\* MaxShareRegions regions, each with a manager of its own, starts one period,
\* the managers submit one after the other, the authority processes and the
\* runtime answers with the total of the period.
ShareRegionIds == 0..MaxShareRegions
ShareManager(regionId) == "s" \o ToString(regionId)
ShareManagers == {ShareManager(r) : r \in 1..MaxShareRegions}
ShareTotals == {1, MaxShareRegions - 1, MaxShareRegions, MaxShareRegions + 1,
                ShareDivisor * MaxShareRegions}
ShareDurationHours == 24

InitShares ==
    /\ now = SecondsPerHour
    /\ authority = Authority
    /\ currentAllocationPeriod = 0
    /\ lastAllocationTime = SecondsPerHour
    /\ regions = [r \in ShareRegionIds |-> EmptyRegion]
    /\ allocationPeriods = [p \in PeriodIds |-> EmptyPeriod]
    /\ waterRequests = [p \in PeriodIds |-> [r \in ShareRegionIds |-> EmptyRequest]]
    /\ regionManagers = [a \in Accounts \cup ShareManagers \cup {NullAddress} |-> 0]
    /\ regionsByPeriod = [p \in PeriodIds |-> <<>>]
    /\ totalRegions = 0
    /\ nextRegionId = 1
    /\ ciphertexts = {}
    /\ acl = {}
    /\ decryptionRequests = <<>>
    /\ events = [t \in EventTypes |-> <<>>]
    /\ calls = 0

ShareRegisterRegion ==
    /\ nextRegionId <= MaxShareRegions
    /\ registerRegion(Authority, "North", 1, ShareManager(nextRegionId))

ShareStartAllocationPeriod ==
    /\ currentAllocationPeriod = 0
    /\ nextRegionId > MaxShareRegions
    /\ \E total \in ShareTotals :
          startAllocationPeriod(Authority, total, ShareDurationHours)

ShareSubmitWaterRequest ==
    \E r \in 1..MaxShareRegions :
        /\ r = Len(regionsByPeriod[currentAllocationPeriod]) + 1
        /\ submitWaterRequest(ShareManager(r), 5, 1)

ShareProcessAllocation ==
    /\ decryptionRequests = <<>>
    /\ processAllocation(Authority)

NextShares ==
    \/ ShareRegisterRegion /\ UNCHANGED calls
    \/ ShareStartAllocationPeriod /\ UNCHANGED calls
    \/ ShareSubmitWaterRequest /\ UNCHANGED calls
    \/ ShareProcessAllocation /\ UNCHANGED calls
    \/ Deliver(1)

SpecShares == InitShares /\ [][NextShares]_vars

(* ================================ claims =============================== *)
cur == currentAllocationPeriod
StartedPeriods == 1..MaxPeriods
AssignedRegions == {r \in 1..MaxRegions : r < nextRegionId}

\* the periods whose window contains now and whose distribution is not completed
ActivePeriods ==
    {p \in StartedPeriods :
        /\ allocationPeriods[p].startTime <= now
        /\ now <= allocationPeriods[p].endTime
        /\ ~allocationPeriods[p].distributionCompleted}

(* --------------------------------- C1 ---------------------------------- *)
C1_State ==
    /\ Cardinality(ActivePeriods) <= 1
    /\ isAllocationPeriodActive =>
          \A total \in PeriodTotals, d \in Durations :
              startAllocationPeriodErr(authority, total, d) = ErrPeriodActive

\* C1: at every timestamp at most one period id has now inside its window and
\* its distribution not completed; while isAllocationPeriodActive() holds, a
\* startAllocationPeriod by the authority reverts with "Allocation period
\* already active" for every argument, and no step creates a new period.
C1_AtMostOneActivePeriod ==
    /\ []C1_State
    /\ [][isAllocationPeriodActive => currentAllocationPeriod' = currentAllocationPeriod]_vars

\* a second period is active while the first one expired without being completed
C1_Witness ==
    /\ currentAllocationPeriod = 2
    /\ ActivePeriods = {2}
    /\ ~allocationPeriods[1].distributionCompleted
    /\ startAllocationPeriodErr(authority, 25, 1) = ErrPeriodActive

(* --------------------------------- C3 ---------------------------------- *)
completed(p) == allocationPeriods[p].distributionCompleted

\* what a callback writes: allocations, request flags, grants, events
allocationState == <<regions, waterRequests, allocationPeriods, ciphertexts, acl, events>>

C3_State ==
    completed(cur) =>
        \A sender \in Accounts, requestId \in RequestIds, total \in CallbackTotals :
            checkSignatures(requestId, TRUE) =>
                processAllocationCallbackErr(sender, requestId, total, TRUE) = ErrCompleted

\* C3: once the callback has completed the current period, every further
\* callback with valid signatures reverts with "Distribution already completed",
\* so no callback step leaves a state whose current period is completed and the
\* allocations, isProcessed flags, grants and events stay as they are.
C3_IdempotentCallback ==
    /\ []C3_State
    /\ [][\A sender \in Accounts, requestId \in RequestIds, total \in CallbackTotals :
            completed(cur) =>
                ~processAllocationCallback(sender, requestId, total, TRUE)]_vars

\* the callback completed period 1 with an allocation, and its request can be replayed
C3_Witness ==
    /\ cur = 1
    /\ completed(1)
    /\ Len(events["WaterAllocated"]) = 1
    /\ checkSignatures(1, TRUE)

(* --------------------------------- C4 ---------------------------------- *)
NoDuplicates(seq) == \A i, j \in 1..Len(seq) : seq[i] = seq[j] => i = j

RequestEvents(p, r) ==
    {i \in 1..Len(events["WaterRequested"]) :
        events["WaterRequested"][i][2] = r /\ events["WaterRequested"][i][3] = p}

\* the accounts whose call resolves to a region that already has a request in
\* the current period
Resubmitters ==
    {a \in Accounts : regionManagers[a] > 0
                      /\ regionManagers[a] \in allocationPeriods[cur].regionParticipated}

\* C4 as stated: a further submission for a region that already has a request
\* in the current period reverts with "Region already submitted request"
\* whatever the amount and the score.
C4_AsStated ==
    \A a \in Resubmitters, amount \in Amounts, score \in Scores :
        submitWaterRequestErr(a, amount, score) = ErrDuplicate

\* C4 amended: per period and region at most one submission ever succeeds; a
\* further submission that resolves to the region always reverts: with "Region
\* already submitted request" when the period is still active and the values
\* are valid, and with the reason of the earlier failing check otherwise.
C4_SingleRequest ==
    /\ \A p \in StartedPeriods :
          /\ NoDuplicates(regionsByPeriod[p])
          /\ Len(regionsByPeriod[p]) = allocationPeriods[p].participatingRegions
          /\ \A r \in 1..MaxRegions : Cardinality(RequestEvents(p, r)) <= 1
    /\ \A a \in Resubmitters, amount \in Amounts, score \in Scores :
          LET err == submitWaterRequestErr(a, amount, score) IN
          /\ err # OK
          /\ (isAllocationPeriodActive /\ amount > 0
                /\ score >= 1 /\ score <= MaxJustification) => err = ErrDuplicate
          /\ ~isAllocationPeriodActive => err = ErrNotDuringPeriod
          /\ (isAllocationPeriodActive /\ amount = 0) => err = ErrInvalidRequested

\* a region with a request in the active period is now managed by another account
C4_Witness ==
    /\ isAllocationPeriodActive
    /\ \E a \in Resubmitters :
          /\ waterRequests[cur][regionManagers[a]].requester # a
          /\ waterRequests[cur][regionManagers[a]].requester # NullAddress

(* --------------------------------- C5 ---------------------------------- *)
\* C5: a submitWaterRequest goes through only for the manager of a registered
\* region that is active; the manager of a deactivated region, or an account
\* that manages no region, is rejected and nothing is recorded.
C5_OnlyActiveRegionManager ==
    [][\A a \in Accounts, amount \in Amounts, score \in Scores :
          submitWaterRequest(a, amount, score) =>
              \E r \in AssignedRegions : regions[r].manager = a /\ regions[r].isActive]_vars

(* --------------------------------- C6 ---------------------------------- *)
\* C6: no two active regions have the same manager address.
C6_OneActiveRegionPerManager ==
    \A r1, r2 \in AssignedRegions :
        (regions[r1].isActive /\ regions[r2].isActive
            /\ regions[r1].manager = regions[r2].manager) => r1 = r2

(* --------------------------------- C7 ---------------------------------- *)
\* C7: a callback whose signatures do not verify reverts with the signature
\* failure in every state, whoever calls and whatever the request id and the
\* total are, before the distributionCompleted check: so it is never a step.
\* The outcome of a callback does not depend on the caller and is never
\* "Not authorized".
C7_SignaturesFirst ==
    /\ [](\A sender \in Accounts, requestId \in RequestIds, total \in CallbackTotals :
            /\ processAllocationCallbackErr(sender, requestId, total, FALSE) = ErrSignatures
            /\ \A sigsValid \in BOOLEAN :
                  /\ processAllocationCallbackErr(sender, requestId, total, sigsValid)
                       = processAllocationCallbackErr(authority, requestId, total, sigsValid)
                  /\ processAllocationCallbackErr(sender, requestId, total, sigsValid)
                       # ErrNotAuthorized)
    /\ [][\A sender \in Accounts, requestId \in RequestIds, total \in CallbackTotals :
            ~processAllocationCallback(sender, requestId, total, FALSE)]_vars

\* a completed period: the forged callback of an outsider is turned down for its
\* signatures, the same callback with valid signatures for the completed flag
C7_Witness ==
    /\ completed(cur)
    /\ processAllocationCallbackErr("m4", 1, 25, FALSE) = ErrSignatures
    /\ processAllocationCallbackErr("m4", 1, 25, TRUE) = ErrCompleted

(* --------------------------------- C8 ---------------------------------- *)
Outsiders == Accounts \ {authority}

\* C8: the authority is the account fixed at construction; for every other
\* caller, in every state and for every argument, registerRegion,
\* startAllocationPeriod, processAllocation, emergencyWaterAllocation,
\* deactivateRegion and updateRegionManager revert with "Not authorized", so
\* none of them is ever a step of such a caller.
C8_AuthorityOnly ==
    /\ [](/\ authority = Authority
          /\ \A sender \in Outsiders :
               /\ \A name \in Names, priorityLevel \in Priorities, manager \in Managers :
                     registerRegionErr(sender, name, priorityLevel, manager)
                       = ErrNotAuthorized
               /\ \A total \in PeriodTotals, d \in Durations :
                     startAllocationPeriodErr(sender, total, d) = ErrNotAuthorized
               /\ processAllocationErr(sender) = ErrNotAuthorized
               /\ \A regionId \in RegionIds :
                     /\ deactivateRegionErr(sender, regionId) = ErrNotAuthorized
                     /\ \A a \in EmergencyAmounts :
                           emergencyWaterAllocationErr(sender, regionId, a)
                             = ErrNotAuthorized
                     /\ \A m \in Managers :
                           updateRegionManagerErr(sender, regionId, m)
                             = ErrNotAuthorized)
    /\ [][\A sender \in Outsiders :
            /\ \A name \in Names, priorityLevel \in Priorities, manager \in Managers :
                  ~registerRegion(sender, name, priorityLevel, manager)
            /\ \A total \in PeriodTotals, d \in Durations :
                  ~startAllocationPeriod(sender, total, d)
            /\ ~processAllocation(sender)
            /\ \A regionId \in RegionIds :
                  /\ ~deactivateRegion(sender, regionId)
                  /\ \A a \in EmergencyAmounts :
                        ~emergencyWaterAllocation(sender, regionId, a)
                  /\ \A m \in Managers : ~updateRegionManager(sender, regionId, m)]_vars

\* a manager has completed a submitWaterRequest, and is turned down as the caller
\* of the authority's operations on its own region and period
C8_Witness ==
    /\ isAllocationPeriodActive
    /\ \E r \in AssignedRegions :
          /\ waterRequests[cur][r].requester \in Outsiders
          /\ regionManagers[waterRequests[cur][r].requester] = r
          /\ processAllocationErr(waterRequests[cur][r].requester) = ErrNotAuthorized
          /\ processAllocationErr(authority) = OK

(* --------------------------------- C9 ---------------------------------- *)
Registered == events["RegionRegistered"]

\* C9: the i-th successful registerRegion returns id i (ids start at 1, grow by
\* one and are never given twice), nextRegionId is the number of successful
\* registrations plus one, never decreases, and only a successful registerRegion
\* moves it; the ids not yet given belong to no region.
C9_MonotonicIds ==
    /\ [](/\ \A i \in 1..Len(Registered) : Registered[i][2] = i
          /\ nextRegionId = Len(Registered) + 1
          /\ \A r \in RegionIds : (r = 0 \/ r >= nextRegionId) => regions[r] = EmptyRegion)
    /\ [][/\ nextRegionId' >= nextRegionId
          /\ nextRegionId' # nextRegionId =>
               /\ nextRegionId' = nextRegionId + 1
               /\ Len(Registered') = Len(Registered) + 1
               /\ \E name \in Names, priorityLevel \in Priorities, manager \in Managers :
                     registerRegion(authority, name, priorityLevel, manager)
          /\ nextRegionId' = nextRegionId => Registered' = Registered]_vars

\* a second region registered next to a deactivated first one, same manager
C9_Witness ==
    /\ nextRegionId = 3
    /\ ~regions[1].isActive
    /\ regions[2].isActive
    /\ regions[2].manager = regions[1].manager
    /\ Registered[2][2] = 2

(* ------------------------------ C2 and C10 ------------------------------ *)
RECURSIVE SumAmounts(_)
SumAmounts(seq) == IF seq = <<>> THEN 0 ELSE seq[1][4] + SumAmounts(Tail(seq))

Allocated == events["WaterAllocated"]
Participants == regionsByPeriod[cur]

\* the WaterAllocated events of the step
NewAllocated == SubSeq(Allocated', Len(Allocated) + 1, Len(Allocated'))

C2_State ==
    \A total \in CycleTotals :
        LET st == distributeWaterBasedOnPriority(total) IN
        /\ ~st.panic
        /\ st.remainingWater >= 0
        /\ st.remainingWater <= total

\* C2: for every total and every number of participants the distribution loop
\* never subtracts more than remains (remainingWater stays within 0..total), and
\* the amounts of the WaterAllocated events of a successful callback add up to
\* at most the decrypted total.
C2_Conservation ==
    /\ []C2_State
    /\ [][\A sender \in Accounts, requestId \in RequestIds, total \in CycleTotals :
            processAllocationCallback(sender, requestId, total, TRUE) =>
                /\ SumAmounts(NewAllocated) <= total
                /\ SumAmounts(NewAllocated)
                     = total - distributeWaterBasedOnPriority(total).remainingWater
                /\ \A k \in 1..Len(NewAllocated) : NewAllocated[k][4] > 0]_vars

\* a callback with total 2 on three requests: two regions got 1 each, the pool is used up
C2_Witness ==
    /\ cur = 1
    /\ completed(1)
    /\ Len(Participants) = 3
    /\ Len(Allocated) = 2
    /\ SumAmounts(Allocated) = 2

\* alloc_k for k = 1..n from R_1 = R: max(1, floor(R_k / 10)) while R_k > 0
RECURSIVE ExpectedAmounts(_, _)
ExpectedAmounts(R, n) ==
    IF n = 0 \/ R <= 0 THEN <<>>
    ELSE LET alloc == IF R \div 10 >= 1 THEN R \div 10 ELSE 1
         IN <<alloc>> \o ExpectedAmounts(R - alloc, n - 1)

Created(p, r) == waterRequests[p][r].requester # NullAddress

AllocatedEvents(p, r) ==
    {i \in 1..Len(Allocated) : Allocated[i][2] = r /\ Allocated[i][3] = p}

\* C11: a request is created with isProcessed false; the flag goes from false
\* to true only in a step of processAllocationCallback, for a request of the
\* current period, together with the one WaterAllocated event of that request;
\* once true it stays true under every later operation.
C11_ProcessedOnce ==
    /\ [](\A p \in PeriodIds, r \in RegionIds :
            /\ waterRequests[p][r].isProcessed =>
                  Created(p, r) /\ Cardinality(AllocatedEvents(p, r)) = 1
            /\ ~waterRequests[p][r].isProcessed => AllocatedEvents(p, r) = {})
    /\ [][\A p \in PeriodIds, r \in RegionIds :
            /\ waterRequests[p][r].isProcessed => waterRequests'[p][r].isProcessed
            /\ (~Created(p, r) /\ Created(p, r)') => ~waterRequests'[p][r].isProcessed
            /\ (~waterRequests[p][r].isProcessed /\ waterRequests'[p][r].isProcessed) =>
                  /\ p = cur
                  /\ Created(p, r)
                  /\ \E sender \in Accounts, requestId \in RequestIds,
                        total \in CallbackTotals :
                        processAllocationCallback(sender, requestId, total, TRUE)]_vars

\* a request processed in period 1 is still processed after the next period started
C11_Witness ==
    /\ cur = 2
    /\ \E r \in AssignedRegions : waterRequests[1][r].isProcessed

(* --------------------------------- C12 --------------------------------- *)
Handles(cts) == {x[1] : x \in cts}

\* the handles the step created
NewHandles == Handles(ciphertexts') \ Handles(ciphertexts)

\* the handles held in the fields of region r and of its requests
OwnedBy(regs, reqs, r) ==
    {regs[r].priorityLevel, regs[r].waterDemand, regs[r].allocatedAmount}
        \cup {reqs[p][r].requestedAmount : p \in PeriodIds}
        \cup {reqs[p][r].justificationScore : p \in PeriodIds}

\* the handles registerRegion creates
RegistrationKinds == {"priority", "initialDemand", "initialAllocation"}

Grantees(grants, h) == {x[2] : x \in {y \in grants : y[1] = h}}

\* C12 as stated: every handle a call creates has the self-grant at the end of
\* the call, and every such handle held by a region (priority, demand,
\* allocation, request values) also a grant to the region's manager.
C12_AsStated ==
    [][\A h \in NewHandles :
          /\ This \in Grantees(acl', h)
          /\ \A r \in 1..MaxRegions :
                h \in OwnedBy(regions', waterRequests', r) =>
                    regions'[r].manager \in Grantees(acl', h)]_vars

\* C12 amended: every stored handle has the self-grant from the end of the call
\* that created it; the handles created by submitWaterRequest, by the allocation
\* callback and by emergencyWaterAllocation also have a grant to the region's
\* manager at the end of that call; the three handles registerRegion creates
\* have the self-grant only.
C12_GrantsAtCreation ==
    /\ [](/\ \A h \in Handles(ciphertexts) : This \in Grantees(acl, h)
          /\ \A r \in 1..MaxRegions :
                OwnedBy(regions, waterRequests, r) \subseteq
                    Handles(ciphertexts) \cup {NoHandle}
          /\ \A p \in StartedPeriods :
                allocationPeriods[p].totalAvailableWater
                    \in Handles(ciphertexts) \cup {NoHandle})
    /\ [][\A h \in NewHandles :
            /\ This \in Grantees(acl', h)
            /\ h[1] \in RegistrationKinds => Grantees(acl', h) = {This}
            /\ h[1] \notin RegistrationKinds =>
                  \A r \in 1..MaxRegions :
                      h \in OwnedBy(regions', waterRequests', r) =>
                          regions'[r].manager \in Grantees(acl', h)]_vars

\* a region with an emergency allocation its manager may decrypt, and a priority
\* its manager may not
C12_Witness ==
    \E r \in AssignedRegions :
        /\ regions[r].allocatedAmount[1] = "emergencyAmount"
        /\ regions[r].manager \in Grantees(acl, regions[r].allocatedAmount)
        /\ Grantees(acl, regions[r].priorityLevel) = {This}
        /\ waterRequests[cur][r].requester \in Grantees(acl, regions[r].waterDemand)

(* --------------------------------- C13 --------------------------------- *)
\* the handles written by the allocation callback or by emergencyWaterAllocation
AllocationKinds == {"allocatedAmount", "emergencyAmount"}

\* C13: for every region whose allocation handle was written by the callback or
\* by emergencyWaterAllocation, the accounts holding a grant on that handle are
\* exactly the region's current manager.
C13_OnlyCurrentManagerDecrypts ==
    \A r \in AssignedRegions :
        regions[r].allocatedAmount[1] \in AllocationKinds =>
            Grantees(acl, regions[r].allocatedAmount) \ {This} = {regions[r].manager}

(* --------------------------------- C14 --------------------------------- *)
NoPeriodStarted == cur = 0
PeriodExpired == cur > 0 /\ now > allocationPeriods[cur].endTime
PeriodCompleted == cur > 0 /\ completed(cur)

\* what submitWaterRequest records
requestState == <<waterRequests, regionsByPeriod, allocationPeriods, regions,
                  ciphertexts, acl, events>>

\* C14: before any period was started, after the end time of the current
\* period has passed and after its distribution completed, submitWaterRequest
\* reverts with "Not during allocation period" for every caller and every
\* argument, and no step of submitWaterRequest is taken; in every other state
\* the period is active and the call fails, if it does, for another reason.
C14_NoRequestOutsidePeriod ==
    /\ [](\A sender \in Accounts, amount \in Amounts, score \in Scores :
            IF NoPeriodStarted \/ PeriodExpired \/ PeriodCompleted
            THEN submitWaterRequestErr(sender, amount, score) = ErrNotDuringPeriod
            ELSE submitWaterRequestErr(sender, amount, score) # ErrNotDuringPeriod)
    /\ [][(NoPeriodStarted \/ PeriodExpired \/ PeriodCompleted) =>
            \A sender \in Accounts, amount \in Amounts, score \in Scores :
                ~submitWaterRequest(sender, amount, score)]_vars

\* the period has run out with a request in it; a manager without a request and
\* an account without a region are both turned down for the period
C14_Witness ==
    /\ PeriodExpired
    /\ ~PeriodCompleted
    /\ Len(regionsByPeriod[cur]) = 1
    /\ \E a \in Accounts :
          /\ regionManagers[a] > 0
          /\ regionManagers[a] \notin allocationPeriods[cur].regionParticipated
          /\ submitWaterRequestErr(a, 5, 1) = ErrNotDuringPeriod
    /\ submitWaterRequestErr("m4", 5, 1) = ErrNotDuringPeriod

AwaitingCallback ==
    /\ cur > 0
    /\ \E i \in 1..Len(decryptionRequests) :
          decryptionRequests[i] = <<allocationPeriods[cur].totalAvailableWater>>
    /\ ~completed(cur)

\* C16 as stated: while the callback of a processed period is outstanding the
\* period is active and startAllocationPeriod reverts with "Allocation period
\* already active", in every later state.
C16_AsStated ==
    AwaitingCallback =>
        /\ isAllocationPeriodActive
        /\ \A total \in PeriodTotals, d \in Durations :
              startAllocationPeriodErr(authority, total, d) = ErrPeriodActive

\* C16 amended: distributionCompleted of a period is set only by a callback,
\* so without one it stays false; while the callback is outstanding the period
\* is active, and startAllocationPeriod reverts with "Allocation period already
\* active", up to and including its end time; after the end time the period is
\* no longer active and the authority can start the next period.
C16_ActiveUntilEnd ==
    /\ [](AwaitingCallback =>
            IF now <= allocationPeriods[cur].endTime
            THEN /\ isAllocationPeriodActive
                 /\ \A total \in PeriodTotals, d \in Durations :
                       startAllocationPeriodErr(authority, total, d) = ErrPeriodActive
            ELSE /\ ~isAllocationPeriodActive
                 /\ startAllocationPeriodErr(authority, 25, 1) = OK)
    /\ [][\A p \in StartedPeriods :
            (~completed(p) /\ allocationPeriods'[p].distributionCompleted) =>
                /\ p = cur
                /\ \E sender \in Accounts, requestId \in RequestIds,
                      total \in CallbackTotals :
                      processAllocationCallback(sender, requestId, total, TRUE)]_vars

\* the callback of period 1 never came; after its end period 2 was started
C16_Witness ==
    /\ cur = 2
    /\ decryptionRequests = <<<<allocationPeriods[1].totalAvailableWater>>>>
    /\ ~completed(1)
    /\ now > allocationPeriods[1].endTime
    /\ isAllocationPeriodActive

(* --------------------------------- C17 --------------------------------- *)
\* the step is the effect of a call that did not fail
SuccessfulCall ==
    \/ \E name \in Names, p \in Priorities, m \in Managers :
          registerRegion(authority, name, p, m)
    \/ \E regionId \in RegionIds : deactivateRegion(authority, regionId)
    \/ \E regionId \in RegionIds, m \in Managers :
          updateRegionManager(authority, regionId, m)
    \/ \E total \in PeriodTotals, d \in Durations :
          startAllocationPeriod(authority, total, d)
    \/ \E sender \in Accounts, amount \in Amounts, score \in Scores :
          submitWaterRequest(sender, amount, score)
    \/ processAllocation(authority)
    \/ \E requestId \in RequestIds, total \in CallbackTotals :
          processAllocationCallback(authority, requestId, total, TRUE)
    \/ \E regionId \in RegionIds, a \in EmergencyAmounts :
          emergencyWaterAllocation(authority, regionId, a)

AllPriorities == 0..(MaxPriority + 1)

otherEvents == [t \in EventTypes \ {"RegionRegistered"} |-> events[t]]

\* C18: registerRegion by the authority reverts, with the reason of the first
\* failing check, when the name is empty, the manager is the null address or
\* the priority is not one of 1..10, and succeeds otherwise; a successful call
\* takes the next id, creates an active region with the given name and manager,
\* points regionManagers[manager] to it, adds 1 to totalRegions and emits one
\* RegionRegistered event and no other.
C18_RegisterRegion ==
    /\ [](\A name \in Names, p \in AllPriorities, m \in Managers :
            registerRegionErr(authority, name, p, m) =
                IF name = "" THEN ErrInvalidName
                ELSE IF m = NullAddress THEN ErrInvalidManager
                ELSE IF p < 1 \/ p > 10 THEN ErrPriority
                ELSE OK)
    /\ [][\A name \in Names, p \in Priorities, m \in Managers :
            registerRegion(authority, name, p, m) =>
                /\ name # "" /\ m # NullAddress /\ p \in 1..10
                /\ nextRegionId' = nextRegionId + 1
                /\ regions'[nextRegionId].isActive
                /\ regions'[nextRegionId].name = name
                /\ regions'[nextRegionId].manager = m
                /\ plaintext(ciphertexts', regions'[nextRegionId].priorityLevel) = p
                /\ \A r \in RegionIds \ {nextRegionId} : regions'[r] = regions[r]
                /\ regionManagers'[m] = nextRegionId
                /\ totalRegions' = totalRegions + 1
                /\ Registered' = Append(Registered,
                                        <<"RegionRegistered", nextRegionId, name, m>>)
                /\ otherEvents' = otherEvents]_vars

\* two registrations: the second region is active, indexed under its manager
C18_Witness ==
    /\ nextRegionId = 3
    /\ totalRegions = 2
    /\ Len(Registered) = 2
    /\ regions[2].isActive
    /\ regionManagers[regions[2].manager] = 2
    /\ registerRegionErr(authority, "North", MaxPriority + 1, "m1") = ErrPriority

(* --------------------------------- C19 --------------------------------- *)
\* the durations around both limits
AllDurations == {0, 1, 24, MaxDurationHours, MaxDurationHours + 1}

\* C19: with no period active, startAllocationPeriod by the authority reverts
\* when the total is 0 or the duration is not one of 1..168 hours and succeeds
\* otherwise (with a period active it reverts in any case); a successful call
\* adds 1 to currentAllocationPeriod and leaves the new period with
\* startTime = now, endTime = now + 3600 * duration > startTime,
\* distributionCompleted false, no participants, and active; only a successful
\* startAllocationPeriod changes currentAllocationPeriod.
C19_StartAllocationPeriod ==
    /\ [](\A total \in PeriodTotals, d \in AllDurations :
            /\ ~isAllocationPeriodActive =>
                  startAllocationPeriodErr(authority, total, d) =
                      IF total = 0 THEN ErrInvalidWater
                      ELSE IF d < 1 \/ d > 168 THEN ErrDuration
                      ELSE OK
            /\ (total = 0 \/ d < 1 \/ d > 168) =>
                  startAllocationPeriodErr(authority, total, d) # OK)
    /\ [][/\ \A total \in PeriodTotals, d \in Durations :
               startAllocationPeriod(authority, total, d) =>
                   /\ total > 0 /\ d \in 1..168
                   /\ currentAllocationPeriod' = currentAllocationPeriod + 1
                   /\ LET period == allocationPeriods'[currentAllocationPeriod'] IN
                      /\ period.startTime = now
                      /\ period.endTime = now + d * 3600
                      /\ period.endTime > period.startTime
                      /\ ~period.distributionCompleted
                      /\ period.participatingRegions = 0
                      /\ period.regionParticipated = {}
                      /\ plaintext(ciphertexts', period.totalAvailableWater) = total
                   /\ regionsByPeriod'[currentAllocationPeriod'] = <<>>
                   /\ isAllocationPeriodActive'
          /\ currentAllocationPeriod' # currentAllocationPeriod =>
               \E total \in PeriodTotals, d \in Durations :
                   startAllocationPeriod(authority, total, d)]_vars

\* the second period, started after the first ran out with a participant
C19_Witness ==
    /\ cur = 2
    /\ allocationPeriods[1].participatingRegions = 1
    /\ allocationPeriods[2].startTime = now
    /\ allocationPeriods[2].startTime > allocationPeriods[1].endTime
    /\ allocationPeriods[2].endTime = now + SecondsPerHour
    /\ allocationPeriods[2].participatingRegions = 0
    /\ isAllocationPeriodActive

(* --------------------------------- C20 --------------------------------- *)
ActiveRegions == {r \in AssignedRegions : regions[r].isActive}

\* C20: deactivateRegion by the authority reverts with "Invalid region ID" for
\* an id never assigned, with "Region not active" for a region already
\* inactive, and succeeds for an active region; a successful call sets isActive
\* of that region to false and takes 1 from totalRegions, which counts the
\* active regions; a region that is inactive stays inactive in every step.
C20_DeactivationIsFinal ==
    /\ [](/\ \A regionId \in RegionIds :
               deactivateRegionErr(authority, regionId) =
                   IF regionId \notin AssignedRegions THEN ErrInvalidRegionId
                   ELSE IF ~regions[regionId].isActive THEN ErrRegionNotActive
                   ELSE OK
          /\ totalRegions = Cardinality(ActiveRegions))
    /\ [][/\ \A regionId \in RegionIds :
               deactivateRegion(authority, regionId) =>
                   /\ regions[regionId].isActive
                   /\ ~regions'[regionId].isActive
                   /\ totalRegions' = totalRegions - 1
                   /\ \A r \in RegionIds \ {regionId} : regions'[r] = regions[r]
          /\ \A r \in AssignedRegions :
               ~regions[r].isActive => ~regions'[r].isActive]_vars

\* region 1 was deactivated and a later registration got a new id
C20_Witness ==
    /\ nextRegionId = 3
    /\ ~regions[1].isActive
    /\ ActiveRegions = {2}
    /\ totalRegions = 1
    /\ deactivateRegionErr(authority, 1) = ErrRegionNotActive
    /\ deactivateRegionErr(authority, 3) = ErrInvalidRegionId

(* --------------------------------- C21 --------------------------------- *)
\* C21: a successful updateRegionManager(id, newManager) sets the manager of
\* region id, points regionManagers[newManager] to id, takes id from the old
\* manager, and leaves the reverse-index entry of the manager of every other
\* active region as it was.
C21_ReassignmentFrame ==
    [][\A id \in RegionIds, newManager \in Managers :
          updateRegionManager(authority, id, newManager) =>
              /\ regions'[id].manager = newManager
              /\ regionManagers'[newManager] = id
              /\ regions[id].manager # newManager =>
                    regionManagers'[regions[id].manager] # id
              /\ \A r \in ActiveRegions \ {id} :
                    regionManagers'[regions[r].manager]
                        = regionManagers[regions[r].manager]]_vars

(* --------------------------------- C22 --------------------------------- *)
\* what emergencyWaterAllocation writes
emergencyState == <<regions, ciphertexts, acl, events>>

\* C22: emergencyWaterAllocation by the authority reverts with "Invalid region
\* ID" for an id never assigned, with "Region not active" for a deactivated
\* region and, for an active region, with "Invalid emergency amount" for the
\* amount 0; a call that reverts is no step, so the allocation handles,
\* lastUpdateTime, the grants and the events are those from before.
C22_EmergencyRejected ==
    /\ [](\A regionId \in RegionIds, a \in EmergencyAmounts :
            emergencyWaterAllocationErr(authority, regionId, a) =
                IF regionId \notin AssignedRegions THEN ErrInvalidRegionId
                ELSE IF ~regions[regionId].isActive THEN ErrRegionNotActive
                ELSE IF a = 0 THEN ErrInvalidEmergency
                ELSE OK)
    /\ [][\A regionId \in RegionIds, a \in EmergencyAmounts :
            emergencyWaterAllocation(authority, regionId, a) =>
                /\ regionId \in ActiveRegions
                /\ a > 0]_vars
    /\ [][events'["EmergencyAllocation"] = events["EmergencyAllocation"] =>
            \A r \in RegionIds :
                regions'[r].allocatedAmount[1] = "emergencyAmount" =>
                    regions'[r].allocatedAmount = regions[r].allocatedAmount]_vars

\* a deactivated region that holds an earlier emergency allocation, next to an
\* active one: the three rejections
C22_Witness ==
    /\ nextRegionId = 3
    /\ ~regions[1].isActive
    /\ regions[1].allocatedAmount[1] = "emergencyAmount"
    /\ regions[2].isActive
    /\ emergencyWaterAllocationErr(authority, 1, 7) = ErrRegionNotActive
    /\ emergencyWaterAllocationErr(authority, 2, 0) = ErrInvalidEmergency
    /\ emergencyWaterAllocationErr(authority, 3, 7) = ErrInvalidRegionId

(* --------------------------------- C23 --------------------------------- *)
\* C23: isAllocationPeriodActive() is true exactly when a period was started,
\* now lies in the closed window [startTime, endTime] of the current period and
\* its distribution is not completed; getCurrentPeriodInfo returns
\* (0, 0, 0, false, 0, false) before the first period and afterwards the stored
\* fields of the current period with that same activity flag.
C23_PeriodViews ==
    /\ isAllocationPeriodActive <=>
          /\ cur > 0
          /\ allocationPeriods[cur].startTime <= now
          /\ now <= allocationPeriods[cur].endTime
          /\ allocationPeriods[cur].distributionCompleted = FALSE
    /\ cur = 0 => getCurrentPeriodInfo = <<0, 0, 0, FALSE, 0, FALSE>>
    /\ cur > 0 =>
          getCurrentPeriodInfo =
              <<cur, allocationPeriods[cur].startTime, allocationPeriods[cur].endTime,
                completed(cur), Len(regionsByPeriod[cur]), cur \in ActivePeriods>>

\* the last instant of the window of a period with a participant: still active
C23_Witness ==
    /\ cur = 1
    /\ now = allocationPeriods[1].endTime
    /\ now > allocationPeriods[1].startTime
    /\ getCurrentPeriodInfo[5] = 1
    /\ getCurrentPeriodInfo[6]

(* --------------------------------- C24 --------------------------------- *)
\* C24 as stated: getRegionInfo of a deactivated region fails with the reason
\* of an id that was never given.
C24_AsStated ==
    \A id \in 1..(nextRegionId - 1) :
        ~regions[id].isActive => getRegionInfoErr(id) = ErrInvalidRegionId

\* C24: getRegionInfo fails with "Invalid region ID" for id 0 and for any
\* id >= nextRegionId and with "Region not active" for a deactivated region;
\* for an active region it succeeds and returns the registered name,
\* isActive = true and the manager given at registration or by the latest
\* updateRegionManager: a successful registerRegion makes it return the call's
\* name and manager, a successful updateRegionManager makes it return the new
\* manager, and no other step changes the name or manager it returns for a
\* region that stays active.
C24_GetRegionInfo ==
    /\ [](\A id \in RegionIds :
            /\ (id = 0 \/ id >= nextRegionId) =>
                  getRegionInfoErr(id) = ErrInvalidRegionId
            /\ (id > 0 /\ id < nextRegionId /\ ~regions[id].isActive) =>
                  getRegionInfoErr(id) = ErrRegionNotActive
            /\ (id > 0 /\ id < nextRegionId /\ regions[id].isActive) =>
                  /\ getRegionInfoErr(id) = OK
                  /\ getRegionInfo(id)[1] = Registered[id][3]
                  /\ getRegionInfo(id)[2] = TRUE)
    /\ [][/\ \A id \in RegionIds, name \in Names, p \in Priorities, m \in Managers :
               (id = nextRegionId /\ registerRegion(authority, name, p, m)) =>
                   /\ getRegionInfoErr(id)' = OK
                   /\ getRegionInfo(id)' = <<name, TRUE, now, m>>
          /\ \A id \in RegionIds, m \in Managers :
               updateRegionManager(authority, id, m) =>
                   /\ getRegionInfoErr(id)' = OK
                   /\ getRegionInfo(id)' =
                          <<getRegionInfo(id)[1], TRUE, getRegionInfo(id)[3], m>>
          /\ \A id \in ActiveRegions :
               (/\ getRegionInfoErr(id)' = OK
                /\ ~\E m \in Managers : updateRegionManager(authority, id, m)) =>
                   /\ getRegionInfo(id)'[1] = getRegionInfo(id)[1]
                   /\ getRegionInfo(id)'[4] = getRegionInfo(id)[4]]_vars

\* region 1 was registered with m1 and handed to m2, region 2 was deactivated
C24_Witness ==
    /\ nextRegionId = 3
    /\ Registered[1][4] = "m1"
    /\ getRegionInfoErr(1) = OK
    /\ getRegionInfo(1) = <<"North", TRUE, getRegionInfo(1)[3], "m2">>
    /\ getRegionInfoErr(2) = ErrRegionNotActive
    /\ getRegionInfoErr(3) = ErrInvalidRegionId

(* --------------------------------- C25 --------------------------------- *)
\* the period whose total a decryption request asked for
requestedPeriod(requestId) == decryptionRequests[requestId][1][2]

\* C25: the callback answering a decryption request changes only the period
\* the request was issued for: for every other period q it leaves
\* distributionCompleted and the requests of q as they were.
C25_CallbackOnRequestedPeriod ==
    [][\A requestId \in RequestIds :
          Deliver(requestId) =>
              \A q \in StartedPeriods \ {requestedPeriod(requestId)} :
                  /\ allocationPeriods'[q].distributionCompleted
                         = allocationPeriods[q].distributionCompleted
                  /\ waterRequests'[q] = waterRequests[q]]_vars

(* --------------------------------- C29 --------------------------------- *)
\* the periods for which processAllocation has issued a decryption request
Requested ==
    {requestedPeriod(requestId) : requestId \in 1..Len(decryptionRequests)}

\* C29: when every decryption request is eventually answered, each period for
\* which processAllocation succeeded eventually has distributionCompleted set.
C29_RequestedPeriodCompletes ==
    \A p \in StartedPeriods : (p \in Requested) ~> completed(p)

(* --------------------------------- C26 --------------------------------- *)
\* the regions of the WaterRequested events of period p, in the order emitted
RECURSIVE regionsOf(_, _)
regionsOf(seq, p) ==
    IF seq = <<>> THEN <<>>
    ELSE (IF seq[1][3] = p THEN <<seq[1][2]>> ELSE <<>>) \o regionsOf(Tail(seq), p)

\* the amounts of the WaterAllocated events of period p, in the order emitted
RECURSIVE amountsOf(_, _)
amountsOf(seq, p) ==
    IF seq = <<>> THEN <<>>
    ELSE (IF seq[1][3] = p THEN <<seq[1][4]>> ELSE <<>>) \o amountsOf(Tail(seq), p)

RECURSIVE remainingBefore(_, _)
remainingBefore(T, k) ==
    IF k = 1 THEN T
    ELSE LET R == remainingBefore(T, k - 1) IN
         IF R = 0 THEN 0
         ELSE IF R \div 10 >= 1 THEN R - (R \div 10) ELSE R - 1

AllTotals == CallbackTotals \cup CycleTotals \cup ShareTotals

\* the total the current period was started with
periodTotal == plaintext(ciphertexts, allocationPeriods[cur].totalAvailableWater)

\* C27: in a successful callback every participant reached while the pool is
\* not empty is allocated at least 1 and marked processed, and a participant is
\* left unprocessed exactly when the pool was empty before its turn (which
\* happens to the last of n participants for a total equal to n, see the
\* witness).
C27_NoStarvationWhilePoolLasts ==
    [][\A sender \in Accounts, requestId \in RequestIds, total \in AllTotals :
          processAllocationCallback(sender, requestId, total, TRUE) =>
              \A k \in 1..Len(Participants) :
                  LET r == Participants[k] IN
                  /\ remainingBefore(total, k) > 0 =>
                        /\ waterRequests'[cur][r].isProcessed
                        /\ plaintext(ciphertexts', regions'[r].allocatedAmount) >= 1
                        /\ \E i \in 1..Len(NewAllocated) :
                              NewAllocated[i][2] = r /\ NewAllocated[i][4] >= 1
                  /\ ~waterRequests'[cur][r].isProcessed
                        <=> remainingBefore(total, k) = 0]_vars

\* as many participants as units of water, and the last one got nothing
C27_Witness ==
    /\ cur = 1
    /\ completed(1)
    /\ Len(Participants) = MaxShareRegions
    /\ periodTotal = MaxShareRegions
    /\ SumAmounts(Allocated) = MaxShareRegions
    /\ waterRequests[1][Participants[MaxShareRegions - 1]].isProcessed
    /\ ~waterRequests[1][Participants[MaxShareRegions]].isProcessed


(* --------------------------------- C28 --------------------------------- *)
\* C28: for every period, distributionCompleted once true stays true; it
\* becomes true only in a step of processAllocationCallback; and from a state
\* in which it is true no step adds a request to the period (participant list,
\* participant set and count, request records) or changes an isProcessed flag
\* of the period.
C28_CompletedIsTerminal ==
    [][\A p \in PeriodIds :
          /\ completed(p) => completed(p)'
          /\ (~completed(p) /\ completed(p)') =>
                \E sender \in Accounts, requestId \in RequestIds, total \in AllTotals :
                    processAllocationCallback(sender, requestId, total, TRUE)
          /\ completed(p) =>
                /\ regionsByPeriod'[p] = regionsByPeriod[p]
                /\ allocationPeriods'[p].participatingRegions
                       = allocationPeriods[p].participatingRegions
                /\ allocationPeriods'[p].regionParticipated
                       = allocationPeriods[p].regionParticipated
                /\ \A r \in RegionIds :
                      /\ Created(p, r)' = Created(p, r)
                      /\ waterRequests'[p][r].isProcessed
                             = waterRequests[p][r].isProcessed]_vars

\* period 1 was completed with one processed request, period 2 was started
\* and has a request of its own
C28_Witness ==
    /\ cur = 2
    /\ completed(1)
    /\ ~completed(2)
    /\ Len(regionsByPeriod[1]) = 1
    /\ waterRequests[1][regionsByPeriod[1][1]].isProcessed
    /\ Len(regionsByPeriod[2]) = 1


(* --------------------------------- C30 --------------------------------- *)
\* what the period state machine and the request ledger hold
periodState == <<currentAllocationPeriod, allocationPeriods, regionsByPeriod,
                 waterRequests, decryptionRequests>>

\* C30: in every reachable state, whatever the state of the current period,
\* emergencyWaterAllocation by the authority on an active region with a
\* positive amount does not revert; a successful call puts a handle that did
\* not exist before, holding the amount, into the region's allocation, grants
\* it to the contract and to the region's current manager, emits one
\* EmergencyAllocation event, and leaves the current period id, the periods
\* (distributionCompleted, participatingRegions), the participant lists, the
\* request records and the pending decryption requests unchanged; a further
\* call replaces the handle in the same way.
C30_EmergencyAnyTime ==
    /\ [](\A r \in ActiveRegions, a \in EmergencyAmounts :
            a > 0 => emergencyWaterAllocationErr(authority, r, a) = OK)
    /\ [][\A r \in RegionIds, a \in EmergencyAmounts :
            emergencyWaterAllocation(authority, r, a) =>
                LET h == regions'[r].allocatedAmount IN
                /\ h \notin Handles(ciphertexts) \cup {NoHandle}
                /\ h # regions[r].allocatedAmount
                /\ NewHandles = {h}
                /\ plaintext(ciphertexts', h) = a
                /\ Grantees(acl', h) = {This, regions[r].manager}
                /\ events'["EmergencyAllocation"]
                       = Append(events["EmergencyAllocation"],
                                <<"EmergencyAllocation", r, a>>)
                /\ periodState' = periodState]_vars

\* two emergency allocations for region 1 while the decryption of period 1 is
\* pending: the region holds the handle of the second one, its request is
\* still unprocessed
C30_Witness ==
    /\ cur = 1
    /\ Len(decryptionRequests) = 1
    /\ ~completed(1)
    /\ regionsByPeriod[1] = <<1>>
    /\ ~waterRequests[1][1].isProcessed
    /\ Len(events["EmergencyAllocation"]) = 2
    /\ \A i \in 1..2 : events["EmergencyAllocation"][i][2] = 1
    /\ regions[1].allocatedAmount = <<"emergencyAmount", 2, 0>>
    /\ regions[1].isActive


(* --------------------------------- C31 --------------------------------- *)
\* the contract records a submission can touch, as one value
ledger == [regions |-> regions, waterRequests |-> waterRequests,
           allocationPeriods |-> allocationPeriods,
           regionsByPeriod |-> regionsByPeriod]

\* the ledger L after the submission of region r by sender in period p at
\* time t: r's request, r's demand and time stamp, r's mark, the count, the list
afterSubmit(L, p, r, sender, t) ==
    [regions |-> [L.regions EXCEPT
                     ![r].waterDemand = <<"requestedAmount", p, r>>,
                     ![r].lastUpdateTime = t],
     waterRequests |-> [L.waterRequests EXCEPT ![p][r] =
                     [requestedAmount |-> <<"requestedAmount", p, r>>,
                      justificationScore |-> <<"justificationScore", p, r>>,
                      isProcessed |-> FALSE, timestamp |-> t, requester |-> sender]],
     allocationPeriods |-> [L.allocationPeriods EXCEPT
                     ![p].regionParticipated = @ \cup {r},
                     ![p].participatingRegions = @ + 1],
     regionsByPeriod |-> [L.regionsByPeriod EXCEPT ![p] = Append(@, r)]]

\* the ledger with the participant lists taken as sets
unordered(L) ==
    [L EXCEPT !.regionsByPeriod =
        [p \in DOMAIN L.regionsByPeriod |->
            {L.regionsByPeriod[p][i] : i \in 1..Len(L.regionsByPeriod[p])}]]

\* the senders whose submission would succeed now
Submitters ==
    {a \in Accounts : \E amount \in Amounts, score \in Scores :
                          submitWaterRequestErr(a, amount, score) = OK}

\* C31: a successful submitWaterRequest by the manager of region r writes r's
\* request record, r's demand handle and lastUpdateTime, r's participation
\* mark, participatingRegions + 1 and r at the end of the participant list, and
\* nothing else in the regions, requests, periods and lists; it does not change
\* whether the submission of another region's manager succeeds; and from every
\* reachable state the submissions of two managers of different regions give,
\* in either order, the same records up to the order of the two ids in the
\* participant list.
C31_SubmissionsCommute ==
    /\ [][\A sender \in Accounts, amount \in Amounts, score \in Scores :
            submitWaterRequest(sender, amount, score) =>
                LET r == regionManagers[sender] IN
                /\ ledger' = afterSubmit(ledger, cur, r, sender, now)
                /\ \A q \in RegionIds \ {r} :
                      /\ regions'[q] = regions[q]
                      /\ \A p \in PeriodIds : waterRequests'[p][q] = waterRequests[p][q]
                /\ \A p \in PeriodIds \ {cur} :
                      /\ waterRequests'[p] = waterRequests[p]
                      /\ allocationPeriods'[p] = allocationPeriods[p]
                      /\ regionsByPeriod'[p] = regionsByPeriod[p]
                /\ \A other \in Accounts, a \in Amounts, sc \in Scores :
                      regionManagers[other] # r =>
                          submitWaterRequestErr(other, a, sc)'
                              = submitWaterRequestErr(other, a, sc)]_vars
    /\ [](\A s1, s2 \in Submitters :
            LET r1 == regionManagers[s1]
                r2 == regionManagers[s2]
                L12 == afterSubmit(afterSubmit(ledger, cur, r1, s1, now), cur, r2, s2, now)
                L21 == afterSubmit(afterSubmit(ledger, cur, r2, s2, now), cur, r1, s1, now)
            IN r1 # r2 =>
                /\ unordered(L12) = unordered(L21)
                /\ L12.regionsByPeriod[cur] = regionsByPeriod[cur] \o <<r1, r2>>
                /\ L21.regionsByPeriod[cur] = regionsByPeriod[cur] \o <<r2, r1>>)

\* regions 1 and 2 both have a request in period 1, region 2's came first
C31_Witness ==
    /\ cur = 1
    /\ regionsByPeriod[1] = <<2, 1>>
    /\ allocationPeriods[1].participatingRegions = 2
    /\ regions[1].manager # regions[2].manager
    /\ waterRequests[1][1].requester = regions[1].manager
    /\ waterRequests[1][2].requester = regions[2].manager
    /\ regions[3] = EmptyRegion


(* --------------------------------- C32 --------------------------------- *)
\* C32: in every reachable state, every address m with regionManagers[m] = r
\* and r > 0 is the manager recorded in region r, and r is an id that was
\* given (0 < r < nextRegionId).
C32_ReverseIndexSound ==
    \A m \in DOMAIN regionManagers :
        regionManagers[m] > 0 =>
            /\ regionManagers[m] < nextRegionId
            /\ regions[regionManagers[m]].manager = m

\* region 1 went from m1 to m2 and region 2, registered for m1, was
\* deactivated: m2 points to 1, m1 still points to 2
C32_Witness ==
    /\ nextRegionId = 3
    /\ Registered[1][4] = "m1"
    /\ regions[1].manager = "m2"
    /\ regionManagers["m2"] = 1
    /\ regionManagers["m1"] = 2
    /\ ~regions[2].isActive


(* --------------------------------- C33 --------------------------------- *)
\* C33: in every reachable state totalRegions is the number of regions whose
\* isActive is true and is at most nextRegionId - 1, and no call of
\* deactivateRegion fails on the decrement (totalRegions is positive whenever
\* the call passes its checks).
C33_ActiveRegionCount ==
    /\ totalRegions = Cardinality({r \in DOMAIN regions : regions[r].isActive})
    /\ totalRegions <= nextRegionId - 1
    /\ totalRegions >= 0
    /\ \A sender \in Accounts, regionId \in RegionIds :
          /\ deactivateRegionErr(sender, regionId) # ErrPanic
          /\ (onlyAuthority(sender) /\ validRegionErr(regionId) = OK) =>
                totalRegions - 1 >= 0

\* three regions were registered and two of them deactivated
C33_Witness ==
    /\ nextRegionId = 4
    /\ totalRegions = 1
    /\ ~regions[1].isActive
    /\ regions[2].isActive
    /\ ~regions[3].isActive


(* --------------------------------- C34 --------------------------------- *)
\* C34: for every period, participatingRegions is the length of the period's
\* participant list and the number of regions marked regionParticipated, the
\* list names no region twice and names exactly the marked regions, and every
\* listed region has a request record of that period, submitted by a non-null
\* requester at a time within the period's [startTime, endTime].
C34_ParticipationConsistent ==
    \A p \in PeriodIds :
        LET period == allocationPeriods[p]
            list == regionsByPeriod[p]
        IN
        /\ period.participatingRegions = Len(list)
        /\ period.participatingRegions = Cardinality(period.regionParticipated)
        /\ NoDuplicates(list)
        /\ {list[i] : i \in 1..Len(list)} = period.regionParticipated
        /\ \A i \in 1..Len(list) :
              LET request == waterRequests[p][list[i]] IN
              /\ request.requester # NullAddress
              /\ request.requestedAmount = <<"requestedAmount", p, list[i]>>
              /\ request.timestamp >= period.startTime
              /\ request.timestamp <= period.endTime

\* two requests in period 1, the first at its start time and the second at
\* its end time
C34_Witness ==
    /\ cur = 1
    /\ Len(regionsByPeriod[1]) = 2
    /\ allocationPeriods[1].startTime < allocationPeriods[1].endTime
    /\ waterRequests[1][regionsByPeriod[1][1]].timestamp = allocationPeriods[1].startTime
    /\ waterRequests[1][regionsByPeriod[1][2]].timestamp = allocationPeriods[1].endTime


(* --------------------------------- C35 --------------------------------- *)
\* C35: a successful callback writes no allocation for a region that is not
\* active when it runs, emits no WaterAllocated event for it and leaves its
\* request unprocessed, so the amounts it hands out all go to active regions.
C35_NoWaterForInactiveRegion ==
    [][\A sender \in Accounts, requestId \in RequestIds, total \in AllTotals :
          processAllocationCallback(sender, requestId, total, TRUE) =>
              \A r \in AssignedRegions :
                  ~regions[r].isActive =>
                      /\ regions'[r].allocatedAmount = regions[r].allocatedAmount
                      /\ waterRequests'[cur][r].isProcessed
                             = waterRequests[cur][r].isProcessed
                      /\ \A i \in 1..Len(NewAllocated) : NewAllocated[i][2] # r]_vars


(* --------------------------------- C36 --------------------------------- *)
\* the period is closed: its end time has passed or its distribution completed
closed(p) ==
    /\ allocationPeriods[p].startTime > 0
    /\ now > allocationPeriods[p].endTime \/ completed(p)

\* the requested amounts of the requests of period p
requestedAmounts(p) == [r \in DOMAIN waterRequests[p] |-> waterRequests[p][r].requestedAmount]

\* C36: from a state in which a period is closed no step changes its
\* participant list, its participatingRegions or the requested amounts of its
\* requests, and a step of processAllocationCallback that completes a period
\* is taken at a time within that period's window (now <= endTime).
C36_ClosedPeriodUnchanged ==
    [][\A p \in StartedPeriods :
          /\ closed(p) =>
                /\ regionsByPeriod'[p] = regionsByPeriod[p]
                /\ allocationPeriods'[p].participatingRegions
                       = allocationPeriods[p].participatingRegions
                /\ requestedAmounts(p)' = requestedAmounts(p)
          /\ (~completed(p) /\ completed(p)') => now <= allocationPeriods[p].endTime]_vars


(* --------------------------------- C37 --------------------------------- *)
Completions == events["AllocationCompleted"]
CompletionEvents(p) == {i \in 1..Len(Completions) : Completions[i][2] = p}
Processed(p) == {r \in DOMAIN waterRequests[p] : waterRequests[p][r].isProcessed}
AllocatedOf(p) == {i \in 1..Len(Allocated) : Allocated[i][3] = p}

\* C37: for every period there is one AllocationCompleted event if
\* distributionCompleted is set and none otherwise, and the event is emitted
\* in the step that sets the flag; a request has one WaterAllocated event if
\* isProcessed is set and none otherwise, emitted in the step that sets the
\* flag, so the WaterAllocated events of a period are as many as its processed
\* requests and at most participatingRegions; and a (period, region) pair has
\* one WaterRequested event, naming the requester, if its request is recorded
\* and none otherwise.
C37_EventsMatchState ==
    /\ [](\A p \in PeriodIds :
            /\ Cardinality(CompletionEvents(p)) = (IF completed(p) THEN 1 ELSE 0)
            /\ \A i \in CompletionEvents(p) :
                  Completions[i][3] = allocationPeriods[p].participatingRegions
            /\ Cardinality(AllocatedOf(p)) = Cardinality(Processed(p))
            /\ Cardinality(AllocatedOf(p)) <= allocationPeriods[p].participatingRegions
            /\ \A r \in DOMAIN waterRequests[p] :
                  /\ Cardinality(AllocatedEvents(p, r))
                         = (IF waterRequests[p][r].isProcessed THEN 1 ELSE 0)
                  /\ Cardinality(RequestEvents(p, r)) = (IF Created(p, r) THEN 1 ELSE 0)
                  /\ \A i \in RequestEvents(p, r) :
                        events["WaterRequested"][i][4] = waterRequests[p][r].requester)
    /\ [][\A p \in PeriodIds :
            /\ (~completed(p) /\ completed(p)') <=>
                  CompletionEvents(p)' # CompletionEvents(p)
            /\ \A r \in DOMAIN waterRequests[p] :
                  (~waterRequests[p][r].isProcessed /\ waterRequests'[p][r].isProcessed)
                      <=> AllocatedEvents(p, r)' # AllocatedEvents(p, r)]_vars

\* period 1 completed with two participants served: one AllocationCompleted,
\* two WaterAllocated and two WaterRequested events
C37_Witness ==
    /\ completed(1)
    /\ Completions = <<<<"AllocationCompleted", 1, 2>>>>
    /\ Cardinality(AllocatedOf(1)) = 2
    /\ Cardinality(Processed(1)) = 2
    /\ Len(events["WaterRequested"]) = 2

====
